---- MODULE Spec2Model ----
(***************************************************************************)
(* Model of the DingTalk adapter for NoneBot (nonebot.adapters.ding):      *)
(*   - Adapter._check_signature : inbound webhook authentication           *)
(*   - Adapter._handle_http     : inbound webhook handler                  *)
(*   - Bot.handle_event         : the dispatch task started by the handler *)
(*   - Adapter._call_api        : outbound message delivery                *)
(*                                                                         *)
(* Python strings are sequences of one-character strings.  Python's None   *)
(* is the value None below; a dict is a function from its keys.            *)
(***************************************************************************)
EXTENDS Integers, Sequences, FiniteSets, TLC

VARIABLES
    secret,       \* Adapter.adapter_config.secret
    req,          \* the inbound request last handled (headers, content)
    authed,       \* what _check_signature returned for req
    resp,         \* how _handle_http ended for req
    bots,         \* the registry: chatbot identity -> Bot
    constructed,  \* every Bot(...) constructed so far, in order
    connected,    \* every bot-connected notification emitted, in order
    tasks,        \* every task started by asyncio.create_task, in order
    nreq,         \* number of inbound requests handled
    now,          \* the wall clock, epoch milliseconds
    call,         \* the arguments of the _call_api call last made
    outcome,      \* how that call ended
    sent,         \* the HTTP requests that call issued, in order
    sending       \* the arguments of the Bot.send call last made

vars == <<secret, req, authed, resp, bots, constructed, connected, tasks,
          nreq, now, call, outcome, sent, sending>>

inVars  == <<req, authed, resp, bots, constructed, connected, tasks, nreq>>
outVars == <<now, call, outcome, sent, sending>>

-----------------------------------------------------------------------------
(* Bounds of the model. *)

\* inbound requests handled in one behaviour
MaxRequests == 3
\* the clock runs over the seconds 0 .. MaxSec
MaxSec == 2

-----------------------------------------------------------------------------
(* Values. *)

\* Python's None; no string is equal to it
None == <<"<None>">>

\* str(x) for x a string or None
Str(x) == IF x = None THEN <<"N", "o", "n", "e">> ELSE x

Digit(d) == CASE d = 0 -> "0" [] d = 1 -> "1" [] d = 2 -> "2" [] d = 3 -> "3"
              [] d = 4 -> "4" [] d = 5 -> "5" [] d = 6 -> "6" [] d = 7 -> "7"
              [] d = 8 -> "8" [] d = 9 -> "9"

RECURSIVE IntToStr(_)
\* str(n) for a natural number n: its decimal digits
IntToStr(n) == IF n < 10 THEN <<Digit(n)>>
               ELSE IntToStr(n \div 10) \o <<Digit(n % 10)>>

\* mutant: only None is falsy
Truthy_noneOnly(x) == x # None

\* bool(x) for the values the adapter tests: None and the empty string,
\* list and dict are falsy
Truthy(x) == x # None /\ x # <<>>

-----------------------------------------------------------------------------
(* utils.calc_hmac_base64(timestamp, secret): base64 of the HMAC of the    *)
(* timestamp under the secret.  The digest is modelled as an ideal MAC: a  *)
(* keyed function of the timestamp in which distinct (timestamp, secret)   *)
(* pairs never collide; its output is over the base64 alphabet, with the   *)
(* characters "+", "/" and "=" that base64 produces.                       *)

B64Char(c) == CASE c = "0" -> "Q" [] c = "1" -> "R" [] c = "2" -> "S"
                [] c = "3" -> "T" [] c = "4" -> "U" [] c = "5" -> "V"
                [] c = "6" -> "W" [] c = "7" -> "X" [] c = "8" -> "Y"
                [] c = "9" -> "Z" [] OTHER -> c

B64Tag(s) == [i \in 1..Len(s) |-> B64Char(s[i])]

calc_hmac_base64(timestamp, key) ==
    B64Tag(key) \o <<"/">> \o B64Tag(timestamp) \o <<"+", "=">>

\* urllib.parse.quote_plus of one character: letters, digits and "_.-~"
\* are kept, a space becomes "+", anything else is percent-encoded
QuoteChar(c) == CASE c = "+" -> <<"%", "2", "B">>
                  [] c = "/" -> <<"%", "2", "F">>
                  [] c = "=" -> <<"%", "3", "D">>
                  [] c = " " -> <<"+">>
                  [] OTHER   -> <<c>>

RECURSIVE quote_plus(_)
quote_plus(s) == IF s = <<>> THEN <<>>
                 ELSE QuoteChar(Head(s)) \o quote_plus(Tail(s))

-----------------------------------------------------------------------------
(* Adapter._check_signature *)

\* request.headers.get(name): None when the header is absent
HeaderGet(request, name) ==
    IF name \in DOMAIN request.headers THEN request.headers[name] ELSE None

\* the timestamp the signature is computed over
SignedTimestamp(request) == Str(HeaderGet(request, "timestamp"))

\* mutant: a request without a sign header is not checked
_check_signature_unsigned(request, key) ==
    LET sign        == HeaderGet(request, "sign")
        sign_base64 == calc_hmac_base64(SignedTimestamp(request), key)
    IN  sign = None \/ ~(sign # sign_base64)

_check_signature(request, key) ==
    LET sign        == HeaderGet(request, "sign")
        sign_base64 == calc_hmac_base64(SignedTimestamp(request), key)
    IN  ~(sign # sign_base64)

-----------------------------------------------------------------------------
(* Inbound request bodies.  A body is None (no content) or the sequence of *)
(* its JSON tokens; a scalar is kept as its literal text.                  *)

\* whether the tokens are a JSON object: "{", key/value pairs, "}"
IsJsonObject(wire) ==
    /\ Len(wire) >= 2
    /\ wire[1] = "{"
    /\ wire[Len(wire)] = "}"
    /\ (Len(wire) - 2) % 2 = 0

\* the keys of a JSON object's tokens
JsonKeys(wire) == {wire[2 * i] : i \in 1..((Len(wire) - 2) \div 2)}

\* the value of key k: of its last occurrence, as json.loads keeps it
JsonValue(wire, k) ==
    LET last == CHOOSE i \in 1..((Len(wire) - 2) \div 2) :
                    /\ wire[2 * i] = k
                    /\ \A j \in 1..((Len(wire) - 2) \div 2) :
                           wire[2 * j] = k => j <= i
    IN  wire[2 * last + 1]

\* json.loads(data): a dict, another JSON value, or JSONDecodeError
JsonLoads(wire) ==
    IF IsJsonObject(wire)
    THEN [kind |-> "dict", dict |-> [k \in JsonKeys(wire) |-> JsonValue(wire, k)]]
    ELSE IF wire = <<"[", "]">>
    THEN [kind |-> "list", dict |-> <<>>]
    ELSE [kind |-> "error", dict |-> <<>>]

-----------------------------------------------------------------------------
(* event.py: ConversationType and the two event classes.                   *)

ConversationType_private == "1"
ConversationType_group   == "2"

\* the fields an event model requires of the payload
EventFields == {"conversationType", "senderId", "sessionWebhook",
                "sessionWebhookExpiredTime"}

\* cls.parse_obj(json_data): the event, or a validation error
ParseObj(cls, d) ==
    IF EventFields \subseteq DOMAIN d
    THEN [kind |-> cls,
          conversationType |-> d["conversationType"],
          senderId |-> d["senderId"],
          sessionWebhook |-> d["sessionWebhook"],
          sessionWebhookExpiredTime |-> d["sessionWebhookExpiredTime"]]
    ELSE [kind |-> "error"]

-----------------------------------------------------------------------------
(* Adapter._handle_http *)

Response(status, content) ==
    [kind |-> "response", status |-> status, content |-> content, exc |-> ""]

\* the handler returned without a value
ReturnedNone == [kind |-> "none", status |-> 0, content |-> "", exc |-> ""]

\* the handler raised
Raised(exc) == [kind |-> "raise", status |-> 0, content |-> "", exc |-> exc]

\* None where a Bot is expected (a record, as every Bot is)
NoBot == [self_id |-> "", serial |-> 0]

\* mutant: the lookup never finds the Bot
BotsGet_miss(registry, bot_id) == NoBot

\* self.bots.get(bot_id, None)
BotsGet(registry, bot_id) ==
    IF bot_id \in DOMAIN registry THEN registry[bot_id] ELSE NoBot

\* Bot(self, bot_id): a new object, told apart by its serial number
NewBot(bot_id) == [self_id |-> bot_id, serial |-> Len(constructed) + 1]

\* self.bot_connect(bot): the registry with the bot under its identity
BotConnect(registry, bot) ==
    [k \in DOMAIN registry \cup {bot.self_id} |->
        IF k = bot.self_id THEN bot ELSE registry[k]]

\* mutant: a payload whose event was dispatched before is dropped
Classify_dedup(json_data) ==
    LET event ==
            IF "conversationType" \notin DOMAIN json_data
            THEN [kind |-> "error"]
            ELSE IF json_data["conversationType"] = ConversationType_private
            THEN ParseObj("PrivateMessageEvent", json_data)
            ELSE IF json_data["conversationType"] = ConversationType_group
            THEN ParseObj("GroupMessageEvent", json_data)
            ELSE [kind |-> "error"]
    IN  IF /\ event.kind # "error"
           /\ \E i \in 1..Len(tasks) : tasks[i].event = event
        THEN [kind |-> "error"]
        ELSE event

\* lines 78-88: the event of a payload; "error" when the try block raises
Classify(json_data) ==
    IF "conversationType" \notin DOMAIN json_data
    THEN [kind |-> "error"]
    ELSE IF json_data["conversationType"] = ConversationType_private
    THEN ParseObj("PrivateMessageEvent", json_data)
    ELSE IF json_data["conversationType"] = ConversationType_group
    THEN ParseObj("GroupMessageEvent", json_data)
    ELSE [kind |-> "error"]

\* mutant: the payload is classified before the Bot is looked up, and a
\* classification failure returns before a Bot is made
HandleBody_classifyFirst(request) ==
    LET parsed == JsonLoads(request.content) IN
    IF parsed.kind = "error"
    THEN /\ resp' = Raised("JSONDecodeError")
         /\ UNCHANGED <<bots, constructed, connected, tasks>>
    ELSE IF parsed.kind # "dict"
    THEN /\ resp' = Raised("TypeError")
         /\ UNCHANGED <<bots, constructed, connected, tasks>>
    ELSE IF "chatbotCorpId" \notin DOMAIN parsed.dict
    THEN /\ resp' = Raised("KeyError")
         /\ UNCHANGED <<bots, constructed, connected, tasks>>
    ELSE LET json_data == parsed.dict
             bot_id    == json_data["chatbotCorpId"]
             found     == BotsGet(bots, bot_id)
             bot       == IF found = NoBot THEN NewBot(bot_id) ELSE found
             event     == Classify(json_data)
         IN  IF event.kind = "error"
             THEN /\ resp' = ReturnedNone
                  /\ UNCHANGED <<bots, constructed, connected, tasks>>
             ELSE /\ IF found = NoBot
                     THEN /\ constructed' = Append(constructed, bot)
                          /\ bots' = BotConnect(bots, bot)
                          /\ connected' = Append(connected, bot_id)
                     ELSE UNCHANGED <<bots, constructed, connected>>
                  /\ tasks' = Append(tasks, [bot |-> bot, event |-> event,
                                                state |-> "pending"])
                  /\ resp' = Response(204, "")

\* lines 70-98: an authenticated request with a body
HandleBody(request) ==
    LET parsed == JsonLoads(request.content) IN
    IF parsed.kind = "error"
    THEN /\ resp' = Raised("JSONDecodeError")
         /\ UNCHANGED <<bots, constructed, connected, tasks>>
    ELSE IF parsed.kind # "dict"
    THEN /\ resp' = Raised("TypeError")
         /\ UNCHANGED <<bots, constructed, connected, tasks>>
    ELSE IF "chatbotCorpId" \notin DOMAIN parsed.dict
    THEN /\ resp' = Raised("KeyError")
         /\ UNCHANGED <<bots, constructed, connected, tasks>>
    ELSE LET json_data == parsed.dict
             bot_id    == json_data["chatbotCorpId"]
             found     == BotsGet(bots, bot_id)
             bot       == IF found = NoBot THEN NewBot(bot_id) ELSE found
             event     == Classify(json_data)
         IN  /\ IF found = NoBot
                THEN /\ constructed' = Append(constructed, bot)
                     /\ bots' = BotConnect(bots, bot)
                     /\ connected' = Append(connected, bot_id)
                ELSE UNCHANGED <<bots, constructed, connected>>
             /\ IF event.kind = "error"
                THEN /\ resp' = ReturnedNone
                     /\ UNCHANGED tasks
                ELSE /\ tasks' = Append(tasks, [bot |-> bot, event |-> event,
                                               state |-> "pending"])
                     /\ resp' = Response(204, "")

HandleHttp(request) ==
    /\ nreq < MaxRequests
    /\ nreq' = nreq + 1
    /\ req' = request
    /\ authed' = _check_signature(request, secret)
    /\ IF ~_check_signature(request, secret)
       THEN /\ resp' = Response(401, "")
            /\ UNCHANGED <<bots, constructed, connected, tasks>>
       ELSE IF Truthy(request.content)
       THEN HandleBody(request)
       ELSE /\ resp' = Response(400, "Invalid request body")
            /\ UNCHANGED <<bots, constructed, connected, tasks>>
    /\ UNCHANGED <<secret, outVars>>

\* mutant: an exception of the task reaches the handler's response
HandleEvent_propagates(i) ==
    /\ i \in 1..Len(tasks)
    /\ tasks[i].state = "pending"
    /\ \E end \in {"done", "failed"} :
           /\ tasks' = [tasks EXCEPT ![i].state = end]
           /\ resp' = IF end = "failed" THEN Raised("Exception") ELSE resp
    /\ UNCHANGED <<secret, req, authed, bots, constructed, connected,
                   nreq, outVars>>

\* Bot.handle_event: the task started for tasks[i] runs to its end, which is
\* a return or an exception of the host's handle_event
HandleEvent(i) ==
    /\ i \in 1..Len(tasks)
    /\ tasks[i].state = "pending"
    /\ \E end \in {"done", "failed"} :
           tasks' = [tasks EXCEPT ![i].state = end]
    /\ UNCHANGED <<secret, req, authed, resp, bots, constructed, connected,
                   nreq, outVars>>

-----------------------------------------------------------------------------
(* Adapter._call_api *)

\* None where an Event is expected (a record, as every event is)
NoEvent == [kind |-> "<None>", conversationType |-> "", senderId |-> <<>>,
            sessionWebhook |-> <<>>, sessionWebhookExpiredTime |-> 0]

\* None where a Message is expected (a sequence of segments, as every
\* Message is)
NoMessage == <<[type |-> "<None>", text |-> <<>>]>>

\* None where a JSON scalar is expected
NoScalar == "<None>"

\* result.get(k)
DictGet(d, k) == IF k \in DOMAIN d THEN d[k] ELSE NoScalar

\* int(datetime.now().timestamp()): the clock in whole seconds
NowSeconds(t) == t \div 1000

\* int(event.sessionWebhookExpiredTime / 1000)
ExpirySeconds(event) == event.sessionWebhookExpiredTime \div 1000

\* line 122: the session of the event has expired at time t
Expired(event, t) == NowSeconds(t) > ExpirySeconds(event)

\* mutant: the signature is sent as it is, not percent-encoded
SignParams_unquoted(key, t) ==
    LET timestamp        == IntToStr(t)
        hmac_code_base64 == calc_hmac_base64(timestamp, key)
    IN  [timestamp |-> timestamp, sign |-> hmac_code_base64]

\* lines 111-115: the query parameters of a signed request at time t
SignParams(key, t) ==
    LET timestamp        == IntToStr(t)
        hmac_code_base64 == calc_hmac_base64(timestamp, key)
    IN  [timestamp |-> timestamp, sign |-> quote_plus(hmac_code_base64)]

\* mutant: a call without webhook and event is not refused
Addressing_noEventCheck(c) ==
    IF Truthy(c.webhook)
    THEN [exc |-> "", webhook |-> c.webhook,
          params |-> IF Truthy(c.secret) THEN SignParams(c.secret, c.now)
                     ELSE <<>>]
    ELSE IF c.event # NoEvent /\ Expired(c.event, c.now)
    THEN [exc |-> "SessionExpired", webhook |-> None, params |-> <<>>]
    ELSE [exc |-> "", webhook |-> c.event.sessionWebhook, params |-> <<>>]

\* mutant: the event is looked at before the explicit webhook
Addressing_eventFirst(c) ==
    IF c.event # NoEvent
    THEN IF Expired(c.event, c.now)
         THEN [exc |-> "SessionExpired", webhook |-> None, params |-> <<>>]
         ELSE [exc |-> "", webhook |-> c.event.sessionWebhook, params |-> <<>>]
    ELSE IF Truthy(c.webhook)
    THEN [exc |-> "", webhook |-> c.webhook,
          params |-> IF Truthy(c.secret) THEN SignParams(c.secret, c.now)
                     ELSE <<>>]
    ELSE [exc |-> "ApiNotAvailable", webhook |-> None, params |-> <<>>]

\* lines 103-127: the address and the query parameters of the request, or
\* the exception raised instead of them
Addressing(c) ==
    IF Truthy(c.webhook)
    THEN [exc |-> "", webhook |-> c.webhook,
          params |-> IF Truthy(c.secret) THEN SignParams(c.secret, c.now)
                     ELSE <<>>]
    ELSE IF c.event # NoEvent
    THEN IF Expired(c.event, c.now)
         THEN [exc |-> "SessionExpired", webhook |-> None, params |-> <<>>]
         ELSE [exc |-> "", webhook |-> c.event.sessionWebhook, params |-> <<>>]
    ELSE [exc |-> "ApiNotAvailable", webhook |-> None, params |-> <<>>]

\* lines 135-142: the request
BuildRequest(c, webhook, params) ==
    [method |-> "POST", url |-> webhook, params |-> params,
     content_type |-> "application/json", message |-> c.message]

\* how a call ends
Returned(result) ==
    [kind |-> "return", exc |-> "", cause |-> "", errcode |-> NoScalar,
     errmsg |-> NoScalar, result |-> result]

RaisedError(exc, cause, errcode, errmsg) ==
    [kind |-> "raise", exc |-> exc, cause |-> cause, errcode |-> errcode,
     errmsg |-> errmsg, result |-> <<>>]

\* mutant: an object without errcode counts as errcode 0
VendorFailed_default0(result) ==
    "errcode" \in DOMAIN result /\ result["errcode"] # "0"

\* line 151: the vendor reported a failure
VendorFailed(result) == DictGet(result, "errcode") # "0"

\* lines 144-156: what the try block does with the transport's reply: it
\* returns the result, or raises the exception named in exc
TryBlock(reply) ==
    IF reply.kind = "error"
    THEN RaisedError("TransportError", "", NoScalar, NoScalar)
    ELSE IF 200 <= reply.status /\ reply.status < 300
    THEN IF ~Truthy(reply.content)
         THEN RaisedError("ValueError", "", NoScalar, NoScalar)
         ELSE LET parsed == JsonLoads(reply.content) IN
              IF parsed.kind = "error"
              THEN RaisedError("JSONDecodeError", "", NoScalar, NoScalar)
              ELSE IF parsed.kind = "dict"
              THEN IF VendorFailed(parsed.dict)
                   THEN RaisedError("ActionFailed", "",
                                    DictGet(parsed.dict, "errcode"),
                                    DictGet(parsed.dict, "errmsg"))
                   ELSE Returned(parsed.dict)
              ELSE RaisedError("NetworkError", "", NoScalar, NoScalar)
    ELSE RaisedError("NetworkError", "", NoScalar, NoScalar)

\* mutant: the NetworkError is raised without "from e"
ExceptClause_noCause(r) ==
    IF r.kind = "raise"
    THEN RaisedError("NetworkError", "", r.errcode, r.errmsg)
    ELSE r

\* mutant: the try block has no except clause
ExceptClause_none(r) == r

\* lines 157-158: every exception of the try block is raised again as a
\* NetworkError whose cause it is
ExceptClause(r) ==
    IF r.kind = "raise"
    THEN RaisedError("NetworkError", r.exc, r.errcode, r.errmsg)
    ELSE r

\* the call has not run yet
Pending ==
    [kind |-> "pending", exc |-> "", cause |-> "", errcode |-> NoScalar,
     errmsg |-> NoScalar, result |-> <<>>]

\* mutant: a request that failed is sent once more
CallApi_retry(c) ==
    /\ call = c
    /\ outcome = Pending
    /\ LET a == Addressing(c) IN
       IF a.exc # ""
       THEN /\ outcome' = RaisedError(a.exc, "", NoScalar, NoScalar)
            /\ sent' = <<>>
       ELSE IF c.message = NoMessage \/ c.message = <<>>
       THEN /\ outcome' = RaisedError("ValueError", "", NoScalar, NoScalar)
            /\ sent' = <<>>
       ELSE /\ sent' = IF TryBlock(c.reply).kind = "raise"
                       THEN <<BuildRequest(c, a.webhook, a.params),
                              BuildRequest(c, a.webhook, a.params)>>
                       ELSE <<BuildRequest(c, a.webhook, a.params)>>
            /\ outcome' = ExceptClause(TryBlock(c.reply))
    /\ UNCHANGED <<secret, inVars, now, call, sending>>

\* the whole call: c holds its arguments, the clock it reads and the reply
\* the transport gives to its request
CallApi(c) ==
    /\ call = c
    /\ outcome = Pending
    /\ LET a == Addressing(c) IN
       IF a.exc # ""
       THEN /\ outcome' = RaisedError(a.exc, "", NoScalar, NoScalar)
            /\ sent' = <<>>
       ELSE IF c.message = NoMessage \/ c.message = <<>>
       THEN /\ outcome' = RaisedError("ValueError", "", NoScalar, NoScalar)
            /\ sent' = <<>>
       ELSE /\ sent' = <<BuildRequest(c, a.webhook, a.params)>>
            /\ outcome' = ExceptClause(TryBlock(c.reply))
    /\ UNCHANGED <<secret, inVars, now, call, sending>>

-----------------------------------------------------------------------------
(* Bot.send (bot.py). *)

\* MessageSegment.text(t)
TextSegment(t) == [type |-> "text", text |-> t]

\* MessageSegment.atDingtalkIds(id): a mention of one id, kept in text
atDingtalkIds(id) == [type |-> "at", text |-> id]

\* Message(s) for a string s: one text segment
MessageFromStr(s) == <<TextSegment(s)>>

\* the message argument of Bot.send: a str (text), a Message (segs) or a
\* MessageSegment (the one element of segs)
MessageArg(cls, text, segs) == [cls |-> cls, text |-> text, segs |-> segs]

\* bot.py line 43: msg
MessageOf(m) ==
    IF m.cls = "Message" THEN m.segs
    ELSE IF m.cls = "str" THEN MessageFromStr(m.text)
    ELSE m.segs

\* mutant: the sender is not mentioned
SendMessage_noMention(event, msg) ==
    IF event.conversationType # ConversationType_private
    THEN MessageFromStr(<<"@">> \o event.senderId \o <<" ">>) \o msg
    ELSE msg

\* bot.py lines 49-52: data["message"]
SendMessage(event, msg) ==
    IF event.conversationType # ConversationType_private
    THEN MessageFromStr(<<"@">> \o event.senderId \o <<" ">>) \o msg
             \o <<atDingtalkIds(event.senderId)>>
    ELSE msg

\* **kwargs of Bot.send: the keys given and the value of each
Kwargs(keys, webhook, key, event, message) ==
    [keys |-> keys, webhook |-> webhook, secret |-> key, event |-> event,
     message |-> message]

\* bot.py lines 34-39: a keyword that names a parameter of send is given
\* twice, which Python refuses with a TypeError before the body runs
BindingFails(kw) == kw.keys \cap {"event", "message"} # {}

\* bot.py lines 45-54: data, as _call_api reads it, with the clock and the
\* transport's reply of the call
SendData(s) ==
    [webhook |-> IF "webhook" \in s.kwargs.keys THEN s.kwargs.webhook
                 ELSE None,
     secret  |-> IF "secret" \in s.kwargs.keys THEN s.kwargs.secret
                 ELSE None,
     event   |-> IF "event" \in s.kwargs.keys THEN s.kwargs.event
                 ELSE s.event,
     message |-> SendMessage(s.event, MessageOf(s.message)),
     reply   |-> s.reply,
     now     |-> s.now]

\* no Bot.send call
NoSend ==
    [event |-> NoEvent, message |-> MessageArg("str", <<>>, <<>>),
     kwargs |-> Kwargs({}, None, None, NoEvent, NoMessage),
     reply |-> [kind |-> "none", status |-> 0, content |-> None],
     now |-> 0]

\* no _call_api call
NoCall ==
    [webhook |-> None, secret |-> None, event |-> NoEvent,
     message |-> NoMessage,
     reply |-> [kind |-> "none", status |-> 0, content |-> None],
     now |-> 0]

\* Bot.send up to its await: the arguments are bound and send_message is
\* called with data
BotSend(s) ==
    /\ sending = s
    /\ s # NoSend
    /\ call = NoCall
    /\ outcome = Returned(<<>>)
    /\ IF BindingFails(s.kwargs)
       THEN /\ outcome' = RaisedError("TypeError", "", NoScalar, NoScalar)
            /\ call' = call
       ELSE /\ outcome' = Pending
            /\ call' = SendData(s)
    /\ UNCHANGED <<secret, inVars, now, sent, sending>>

\* the times the clock shows: the start, the second millisecond and the
\* last millisecond of each second
Times == {1000 * sec + ms : sec \in 0..MaxSec, ms \in {0, 1, 999}}

-----------------------------------------------------------------------------
(* The requests the webhook receives. *)

Secrets == {<<"s", "1">>, <<"s", "2">>}

\* values of the timestamp header; the last is the text "None"
Timestamps == {<<"1">>, <<"1", "2">>, <<>>, <<"N", "o", "n", "e">>}

\* values of the sign header: every signature some secret gives some
\* timestamp, and two that no secret gives
Signs == {calc_hmac_base64(Str(t), k) : t \in Timestamps \cup {None}, k \in Secrets}
             \cup {<<>>, <<"x">>}

Headers(t, s) ==
    [n \in (IF t = None THEN {} ELSE {"timestamp"})
             \cup (IF s = None THEN {} ELSE {"sign"}) |->
        IF n = "timestamp" THEN t ELSE s]

AllHeaders == {Headers(t, s) : t \in Timestamps \cup {None}, s \in Signs \cup {None}}

Payload(corp, ctype) ==
    <<"{", "chatbotCorpId", corp, "conversationType", ctype, "senderId", "u1",
      "sessionWebhook", "https://s/1", "sessionWebhookExpiredTime", "5000", "}">>

Bodies ==
    {None, <<>>, <<"{">>, <<"[", "]">>,
     <<"{", "conversationType", "1", "}">>,
     <<"{", "chatbotCorpId", "B1", "senderId", "u1", "}">>,
     <<"{", "chatbotCorpId", "B2", "conversationType", "1", "senderId", "u1", "}">>}
        \cup {Payload(corp, ctype) : corp \in {"B1", "B2"}, ctype \in {"1", "2", "3"}}

\* the headers the webhook requests of the model carry
InboundHeaders ==
    {Headers(<<"1">>, calc_hmac_base64(<<"1">>, secret)),
     Headers(None, calc_hmac_base64(Str(None), secret)),
     Headers(<<"1">>, calc_hmac_base64(<<"1", "2">>, secret)),
     Headers(<<"1">>, None)}

Requests == [headers : InboundHeaders, content : Bodies]

-----------------------------------------------------------------------------
(* The calls of _call_api. *)

Webhooks == {None, <<>>, <<"W">>}

CallSecrets == {None, <<>>, <<"k">>}

Event(cls, ctype, expiry) ==
    [kind |-> cls, conversationType |-> ctype, senderId |-> <<"u", "1">>,
     sessionWebhook |-> <<"S">>, sessionWebhookExpiredTime |-> expiry]

\* expiry times of the events
Expiries == Times

Events == {NoEvent} \cup {Event("PrivateMessageEvent", "1", t) : t \in Expiries}

Messages == {NoMessage, <<>>, <<[type |-> "text", text |-> <<"h", "i">>]>>}

\* no reply: the call issued no request
NoReply == [kind |-> "none", status |-> 0, content |-> None]

\* what the transport does with a request: it fails, or it gives a response
Replies ==
    {[kind |-> "error", status |-> 0, content |-> None]}
        \cup [kind : {"response"}, status : {200},
              content : {<<>>, <<"{">>, <<"[", "]">>,
                         <<"{", "errcode", "0", "errmsg", "ok", "}">>,
                         <<"{", "errcode", "1", "errmsg", "bad", "}">>,
                         <<"{", "errmsg", "ok", "}">>}]
        \cup [kind : {"response"}, status : {199, 299, 300, 500},
              content : {<<"{", "errcode", "0", "errmsg", "ok", "}">>}]

\* the events Bot.send answers: private and group, with a session that
\* expires at the first or in the last second of the clock
SendEvents ==
    {Event("PrivateMessageEvent", "1", t) : t \in {0, 1000 * MaxSec}}
        \cup {Event("GroupMessageEvent", "2", t) : t \in {0, 1000 * MaxSec}}

\* the message arguments of Bot.send
SendArgs ==
    {MessageArg("str", <<"h", "i">>, <<>>),
     MessageArg("Message", <<>>, <<>>),
     MessageArg("Message", <<>>, <<TextSegment(<<"a">>), atDingtalkIds(<<"u", "2">>),
                                   TextSegment(<<"b">>)>>),
     MessageArg("MessageSegment", <<>>, <<TextSegment(<<"c">>)>>)}

\* the keyword arguments of Bot.send
SendKwargs ==
    {Kwargs({}, None, None, NoEvent, NoMessage),
     Kwargs({"webhook"}, <<"W">>, None, NoEvent, NoMessage),
     Kwargs({"webhook", "secret"}, <<"W">>, <<"k">>, NoEvent, NoMessage),
     Kwargs({"event"}, None, None, Event("PrivateMessageEvent", "1", 1000 * MaxSec),
            NoMessage),
     Kwargs({"message"}, None, None, NoEvent, MessageFromStr(<<"x">>))}

\* the call gets as far as its HTTP request
IssuesRequest(c) ==
    /\ Truthy(c.webhook) \/ (c.event # NoEvent /\ ~Expired(c.event, c.now))
    /\ c.message # NoMessage
    /\ c.message # <<>>

\* the calls made at time t; only a call that issues its request gets a
\* reply
Calls(t) ==
    {c \in [webhook : Webhooks, secret : CallSecrets, event : Events,
            message : Messages, reply : Replies \cup {NoReply}, now : {t}] :
        IssuesRequest(c) <=> c.reply # NoReply}

\* the Bot.send calls made at time t; only a call that issues its request
\* gets a reply
Sends(t) ==
    {s \in [event : SendEvents, message : SendArgs, kwargs : SendKwargs,
            reply : Replies \cup {NoReply}, now : {t}] :
        (~BindingFails(s.kwargs) /\ IssuesRequest(SendData(s)))
            <=> s.reply # NoReply}

-----------------------------------------------------------------------------
(* _check_signature on its own, over every header pair. *)

CheckSignature(request) ==
    /\ req' = request
    /\ authed' = _check_signature(request, secret)
    /\ UNCHANGED <<secret, resp, bots, constructed, connected, tasks, nreq,
                   outVars>>

-----------------------------------------------------------------------------
(* Specifications. *)

NoRequest == [headers |-> <<>>, content |-> None]

Init ==
    /\ secret \in Secrets
    /\ req = NoRequest
    /\ authed = FALSE
    /\ resp = ReturnedNone
    /\ bots = <<>>
    /\ constructed = <<>>
    /\ connected = <<>>
    /\ tasks = <<>>
    /\ nreq = 0
    /\ now = 0
    /\ call = NoCall
    /\ outcome = Returned(<<>>)
    /\ sent = <<>>
    /\ sending = NoSend

\* the signature check alone
NextSig == \E h \in AllHeaders : CheckSignature([headers |-> h, content |-> None])

SpecSig == Init /\ [][NextSig]_vars

\* the inbound webhook, under one configured secret
InitIn == Init /\ secret = <<"s", "1">>

NextIn ==
    \/ \E request \in Requests : HandleHttp(request)
    \/ \E i \in 1..MaxRequests : HandleEvent(i)

SpecIn == InitIn /\ [][NextIn]_vars

\* one outbound call, made at any time with any arguments
InitOut ==
    /\ secret = <<"s", "1">>
    /\ req = NoRequest
    /\ authed = FALSE
    /\ resp = ReturnedNone
    /\ bots = <<>>
    /\ constructed = <<>>
    /\ connected = <<>>
    /\ tasks = <<>>
    /\ nreq = 0
    /\ now \in Times
    /\ call \in Calls(now)
    /\ outcome = Pending
    /\ sent = <<>>
    /\ sending = NoSend

NextOut == CallApi(call)

SpecOut == InitOut /\ [][NextOut]_vars

\* one Bot.send call, made at any time, and the _call_api call it makes
InitSend ==
    /\ secret = <<"s", "1">>
    /\ req = NoRequest
    /\ authed = FALSE
    /\ resp = ReturnedNone
    /\ bots = <<>>
    /\ constructed = <<>>
    /\ connected = <<>>
    /\ tasks = <<>>
    /\ nreq = 0
    /\ now \in Times
    /\ call = NoCall
    /\ outcome = Returned(<<>>)
    /\ sent = <<>>
    /\ sending \in Sends(now)

NextSend ==
    \/ BotSend(sending)
    \/ CallApi(call)

SpecSend == InitSend /\ [][NextSend]_vars

-----------------------------------------------------------------------------
(* Claims about the inbound webhook. *)

\* the step is one run of _handle_http, for the request req'
Handled == nreq' = nreq + 1

\* the request's sign header is the signature of its timestamp header
SignMatches(request, key) ==
    /\ "sign" \in DOMAIN request.headers
    /\ "timestamp" \in DOMAIN request.headers
    /\ request.headers["sign"] =
           calc_hmac_base64(request.headers["timestamp"], key)

\* the sign header differs from what _check_signature computes
SignRejected(request, key) ==
    HeaderGet(request, "sign") # calc_hmac_base64(SignedTimestamp(request), key)

\* the request carries a JSON object with a chatbotCorpId
HasIdentity(request) ==
    /\ Truthy(request.content)
    /\ JsonLoads(request.content).kind = "dict"
    /\ "chatbotCorpId" \in DOMAIN JsonLoads(request.content).dict

Identity(request) == JsonLoads(request.content).dict["chatbotCorpId"]

\* C1: a request whose signature check fails is answered 401 whatever its
\* body is, and the handler does nothing else: the registry, the Bots
\* constructed, the bot-connected notifications and the tasks started are
\* what they were.
C1_RejectedDoesNothing ==
    [][(Handled /\ SignRejected(req', secret)) =>
           /\ resp' = Response(401, "")
           /\ UNCHANGED <<bots, constructed, connected, tasks>>]_vars

\* C1 witness: a request with a bad signature and a payload of an identity
\* not yet seen was answered 401, and that identity has no Bot
C1_Witness ==
    /\ nreq > 0
    /\ SignRejected(req, secret)
    /\ req.content = Payload("B2", "1")
    /\ resp = Response(401, "")
    /\ "B1" \in DOMAIN bots
    /\ "B2" \notin DOMAIN bots

\* C2: _check_signature succeeds if and only if the sign header equals the
\* signature of the timestamp header; a request without a sign header or
\* without a timestamp header fails.
C2_SignatureIff == authed <=> SignMatches(req, secret)

\* C3: an authenticated request with a body is classified by
\* conversationType: the private value starts a dispatch of a Private
\* event, the group value of a Group event, and for any other value the
\* handler returns a 204 response and starts no dispatch.
C3_Classification ==
    [][(Handled /\ authed' /\ HasIdentity(req')) =>
           LET d == JsonLoads(req'.content).dict
               t == IF "conversationType" \in DOMAIN d
                    THEN d["conversationType"] ELSE ""
           IN  /\ (t = "1" /\ EventFields \subseteq DOMAIN d) =>
                      /\ Len(tasks') = Len(tasks) + 1
                      /\ tasks'[Len(tasks')].event.kind = "PrivateMessageEvent"
               /\ (t = "2" /\ EventFields \subseteq DOMAIN d) =>
                      /\ Len(tasks') = Len(tasks) + 1
                      /\ tasks'[Len(tasks')].event.kind = "GroupMessageEvent"
               /\ (t \notin {"1", "2"}) =>
                      /\ resp' = Response(204, "")
                      /\ tasks' = tasks]_vars

\* C4: every run of _handle_http ends with a response of status 401, 400
\* or 204, and with 204 once the request is authenticated and has a body;
\* it never raises.
C4_AlwaysResponds ==
    nreq > 0 =>
        /\ resp.kind = "response"
        /\ resp.status \in {401, 400, 204}
        /\ (authed /\ Truthy(req.content)) => resp.status = 204

\* the Bots constructed for identity id
ConstructedFor(id) == {i \in 1..Len(constructed) : constructed[i].self_id = id}

\* the bot-connected notifications emitted for identity id
ConnectedFor(id) == {i \in 1..Len(connected) : connected[i] = id}

\* every identity in the registry has one Bot, constructed once and
\* announced once, and nothing else was constructed or announced
OneBotPerIdentity ==
    /\ \A id \in DOMAIN bots :
           /\ bots[id].self_id = id
           /\ Cardinality(ConstructedFor(id)) = 1
           /\ \A i \in ConstructedFor(id) : constructed[i] = bots[id]
           /\ Cardinality(ConnectedFor(id)) = 1
    /\ \A i \in 1..Len(constructed) : constructed[i].self_id \in DOMAIN bots
    /\ \A i \in 1..Len(connected) : connected[i] \in DOMAIN bots
    /\ \A i \in 1..Len(tasks) : tasks[i].bot = bots[tasks[i].bot.self_id]

\* C5: in every interleaving of requests and dispatch tasks the registry
\* holds one Bot per identity observed on an authenticated request with a
\* body: the first observation constructs and registers one Bot and emits
\* bot-connected once, every later one reuses that Bot and constructs and
\* registers nothing.
C5_OneBotPerIdentity ==
    /\ []OneBotPerIdentity
    /\ [][(Handled /\ authed' /\ HasIdentity(req')) =>
             LET id == Identity(req') IN
             /\ id \in DOMAIN bots'
             /\ IF id \in DOMAIN bots
                THEN UNCHANGED <<bots, constructed, connected>>
                ELSE /\ Len(constructed') = Len(constructed) + 1
                     /\ DOMAIN bots' = DOMAIN bots \cup {id}
                     /\ connected' = Append(connected, id)
             /\ Len(tasks') > Len(tasks) =>
                    tasks'[Len(tasks')].bot = bots'[id]]_vars

\* C5 witness: three requests with the same identity were handled, all by
\* the one Bot constructed for it
C5_Witness ==
    /\ Len(tasks) = 3
    /\ \A i \in 1..3 : tasks[i].bot = bots["B1"]
    /\ Len(constructed) = 1
    /\ connected = <<"B1">>

-----------------------------------------------------------------------------
(* Claims about the outbound call. *)

\* the call has run
Done == outcome.kind # "pending"

\* the call failed with exception exc, as its caller sees it
FailedWith(exc) == outcome.kind = "raise" /\ outcome.exc = exc

\* direct webhook mode: an explicit webhook is supplied
DirectMode == Truthy(call.webhook)

\* session-reply mode: an event and no explicit webhook
SessionMode == ~Truthy(call.webhook) /\ call.event # NoEvent

HasMessage == call.message # NoMessage /\ call.message # <<>>

\* the request was answered with a 2xx status and a JSON object
GotObject ==
    /\ Len(sent) = 1
    /\ call.reply.kind = "response"
    /\ call.reply.status \in 200..299
    /\ Truthy(call.reply.content)
    /\ JsonLoads(call.reply.content).kind = "dict"

ReplyObject == JsonLoads(call.reply.content).dict

\* the object carries a nonzero errcode
NonzeroErrcode(d) == "errcode" \in DOMAIN d /\ d["errcode"] # "0"

\* C6: a 2xx response whose JSON object carries a nonzero errcode makes
\* the call fail with ActionFailed, which is what the caller sees, with
\* that errcode and errmsg.
C6_ActionFailedVisible ==
    (Done /\ GotObject /\ NonzeroErrcode(ReplyObject)) =>
        /\ FailedWith("ActionFailed")
        /\ outcome.errcode = ReplyObject["errcode"]
        /\ outcome.errmsg = DictGet(ReplyObject, "errmsg")

\* C7, as claimed: a 2xx response whose JSON object carries no nonzero
\* errcode (errcode 0, or no errcode at all) makes the call return exactly
\* that object.
C7_ReturnsUnlessNonzero ==
    (Done /\ GotObject /\ ~NonzeroErrcode(ReplyObject)) =>
        outcome = Returned(ReplyObject)

\* C7, amended: a 2xx response whose JSON object carries errcode 0 makes
\* the call return exactly that object; an object without an errcode field
\* is not a success: the call fails and returns nothing.
C7_ReturnsOnZero ==
    (Done /\ GotObject) =>
        /\ ("errcode" \in DOMAIN ReplyObject /\ ReplyObject["errcode"] = "0")
               => outcome = Returned(ReplyObject)
        /\ "errcode" \notin DOMAIN ReplyObject => outcome.kind = "raise"

\* C7 witness: the vendor answered 200 with errcode 0 and the call
\* returned the object
C7_Witness ==
    /\ Done
    /\ GotObject
    /\ call.reply.status = 200
    /\ ReplyObject = [errcode |-> "0", errmsg |-> "ok"]
    /\ outcome.kind = "return"
    /\ outcome.result = [errcode |-> "0", errmsg |-> "ok"]

\* C8: in session-reply mode the call (here: one that carries a message)
\* fails with SessionExpired if and only if the current time in
\* milliseconds is at or past the event's sessionWebhookExpiredTime;
\* before it, the request goes to the event's sessionWebhook.
C8_ExpiredIffAtOrPast ==
    (Done /\ SessionMode /\ HasMessage) =>
        /\ FailedWith("SessionExpired")
               <=> call.now >= call.event.sessionWebhookExpiredTime
        /\ call.now < call.event.sessionWebhookExpiredTime =>
               /\ Len(sent) = 1
               /\ sent[1].url = call.event.sessionWebhook

\* C9: a call with neither an explicit webhook nor an event fails with
\* ApiNotAvailable, and a call that fails with ApiNotAvailable or
\* SessionExpired has issued no HTTP request.
C9_NoRequestOnEarlyFailure ==
    Done =>
        /\ (~Truthy(call.webhook) /\ call.event = NoEvent)
               => FailedWith("ApiNotAvailable")
        /\ (FailedWith("ApiNotAvailable") \/ FailedWith("SessionExpired"))
               => sent = <<>>

\* C9 witness: a call with a message, no webhook and no event failed with
\* ApiNotAvailable and issued nothing
C9_Witness ==
    /\ Done
    /\ call.webhook = None
    /\ call.event = NoEvent
    /\ HasMessage
    /\ FailedWith("ApiNotAvailable")
    /\ sent = <<>>

\* C10: the request carries the query parameters timestamp and sign if and
\* only if the call is in direct webhook mode with a secret, and then sign
\* is the percent-encoded signature, under that secret, of the timestamp
\* parameter; every other request carries no query parameter.
C10_SignedIffDirectWithSecret ==
    (Done /\ Len(sent) = 1) =>
        LET params == sent[1].params
            signed == DirectMode /\ Truthy(call.secret)
        IN  /\ signed => /\ DOMAIN params = {"timestamp", "sign"}
                         /\ params["sign"] = quote_plus(calc_hmac_base64(
                                                 params["timestamp"], call.secret))
            /\ ~signed => DOMAIN params = {}

\* C10 witness: a direct-webhook call with a secret sent a request whose
\* sign holds a percent-encoded character
C10_Witness ==
    /\ Done
    /\ call.webhook = <<"W">>
    /\ call.secret = <<"k">>
    /\ Len(sent) = 1
    /\ sent[1].url = <<"W">>
    /\ DOMAIN sent[1].params = {"timestamp", "sign"}
    /\ \E i \in 1..Len(sent[1].params["sign"]) : sent[1].params["sign"][i] = "%"

\* the exception the try block raises first for the transport's reply, ""
\* when the claim names none: a transport failure, a status outside 2xx, a
\* 2xx status with an empty body, a body that is not JSON
OriginalFailure ==
    IF call.reply.kind = "error" THEN "TransportError"
    ELSE IF call.reply.status \notin 200..299 THEN "NetworkError"
    ELSE IF call.reply.content \in {None, <<>>} THEN "ValueError"
    ELSE IF call.reply.content = <<"{">> THEN "JSONDecodeError"
    ELSE ""

\* C11: when the request meets a transport failure, a status that is not
\* 2xx, a 2xx status with an empty body or a body that cannot be decoded,
\* the call fails with NetworkError whose cause is the original exception;
\* it never returns a result.
C11_NetworkErrorWithCause ==
    (Done /\ Len(sent) = 1 /\ OriginalFailure # "") =>
        /\ FailedWith("NetworkError")
        /\ outcome.cause = OriginalFailure
        /\ outcome.result = <<>>

\* C11 witness: the vendor answered 200 with an empty body and the call
\* failed with NetworkError caused by the ValueError
C11_Witness ==
    /\ Done
    /\ Len(sent) = 1
    /\ call.reply.kind = "response"
    /\ call.reply.status = 200
    /\ call.reply.content = <<>>
    /\ FailedWith("NetworkError")
    /\ outcome.cause = "ValueError"

-----------------------------------------------------------------------------
(* More claims about the inbound webhook. *)

\* the payload d does not classify into an event
ClassificationFails(d) ==
    \/ "conversationType" \notin DOMAIN d
    \/ d["conversationType"] \notin {"1", "2"}
    \/ ~(EventFields \subseteq DOMAIN d)

\* the request is authenticated and its payload classifies into an event
Dispatches(request, key) ==
    /\ ~SignRejected(request, key)
    /\ HasIdentity(request)
    /\ ~ClassificationFails(JsonLoads(request.content).dict)

\* the tasks started before this step are what they were
TasksKept == \A i \in 1..Len(tasks) : i <= Len(tasks') /\ tasks'[i] = tasks[i]

\* C12: for an authenticated request that classifies into an event the
\* handler starts the dispatch task and returns 204 without waiting for it
\* (the task is still pending), whatever became of the tasks started
\* before; and a task that ends, by a return or by an exception, changes no
\* response.
C12_FireAndForget ==
    /\ [][(Handled /\ Dispatches(req', secret)) =>
             /\ resp' = Response(204, "")
             /\ Len(tasks') = Len(tasks) + 1
             /\ tasks'[Len(tasks')].state = "pending"
             /\ TasksKept]_vars
    /\ [][~Handled => (resp' = resp /\ req' = req)]_vars

\* C12 witness: three requests were answered, the last with 204, while the
\* task of the first has failed, that of the second has ended and that of
\* the third is still pending
C12_Witness ==
    /\ nreq = 3
    /\ Len(tasks) = 3
    /\ tasks[1].state = "failed"
    /\ tasks[2].state = "done"
    /\ tasks[3].state = "pending"
    /\ resp = Response(204, "")

\* C13: no deduplication: a delivery identical to the one before it, which
\* was dispatched, is answered 204 and starts one more task, for the same
\* event and on the same Bot; so n identical deliveries start n tasks.  No
\* delivery starts more than one task.
C13_NoDeduplication ==
    /\ [](Len(tasks) <= nreq)
    /\ [][(Handled /\ req' = req /\ resp = Response(204, "")) =>
             /\ resp' = Response(204, "")
             /\ Len(tasks) >= 1
             /\ Len(tasks') = Len(tasks) + 1
             /\ tasks'[Len(tasks')].bot = tasks[Len(tasks)].bot
             /\ tasks'[Len(tasks')].event = tasks[Len(tasks)].event
             /\ TasksKept]_vars

\* C13 witness: the same group payload was delivered three times and
\* started three tasks for the same event on the same Bot
C13_Witness ==
    /\ nreq = 3
    /\ req.content = Payload("B1", "2")
    /\ resp = Response(204, "")
    /\ Len(tasks) = 3
    /\ \A i \in 1..3 : /\ tasks[i].bot = tasks[1].bot
                       /\ tasks[i].event = tasks[1].event
                       /\ tasks[i].event.kind = "GroupMessageEvent"

\* C14: an authenticated request whose body is absent or empty is answered
\* 400 with the body "Invalid request body" and has no other effect.
C14_MissingBody ==
    [][(Handled /\ ~SignRejected(req', secret) /\ req'.content \in {None, <<>>}) =>
           /\ resp' = Response(400, "Invalid request body")
           /\ UNCHANGED <<bots, constructed, connected, tasks>>]_vars

\* C14 witness: after a Bot was registered, an authenticated request with
\* an empty body was answered 400
C14_Witness ==
    /\ nreq > 1
    /\ ~SignRejected(req, secret)
    /\ req.content = <<>>
    /\ resp = Response(400, "Invalid request body")
    /\ "B1" \in DOMAIN bots
    /\ Len(tasks) = 1

\* C16: an authenticated request with a body whose chatbotCorpId is seen
\* for the first time registers a new Bot and emits bot-connected even
\* when its classification fails and nothing is dispatched; a registered
\* Bot stays registered.
C16_BotBeforeClassification ==
    /\ [][(/\ Handled
           /\ ~SignRejected(req', secret)
           /\ HasIdentity(req')
           /\ Identity(req') \notin DOMAIN bots
           /\ ClassificationFails(JsonLoads(req'.content).dict)) =>
             /\ Identity(req') \in DOMAIN bots'
             /\ bots'[Identity(req')].self_id = Identity(req')
             /\ constructed' = Append(constructed, bots'[Identity(req')])
             /\ connected' = Append(connected, Identity(req'))
             /\ tasks' = tasks]_vars
    /\ [][\A id \in DOMAIN bots :
             id \in DOMAIN bots' /\ bots'[id] = bots[id]]_vars

\* C16 witness: a request of identity B2 failed classification, so no task
\* runs on B2, yet B2 is registered and still is after a later request of
\* identity B1 was dispatched
C16_Witness ==
    /\ nreq = 2
    /\ req.content = Payload("B1", "1")
    /\ resp = Response(204, "")
    /\ connected = <<"B2", "B1">>
    /\ "B2" \in DOMAIN bots
    /\ \A i \in 1..Len(tasks) : tasks[i].bot.self_id = "B1"

-----------------------------------------------------------------------------
(* More claims about the outbound call. *)

\* the transport failed, or answered with a status outside 2xx, or the
\* vendor's object carries a nonzero errcode
RequestFailed ==
    \/ call.reply.kind = "error"
    \/ call.reply.kind = "response" /\ call.reply.status \notin 200..299
    \/ GotObject /\ NonzeroErrcode(ReplyObject)

\* C15: a call issues at most one HTTP request; after a transport failure,
\* a status outside 2xx or a vendor error the call has failed and its one
\* request was not sent again.
C15_NoRetry ==
    Done =>
        /\ Len(sent) <= 1
        /\ RequestFailed => (Len(sent) = 1 /\ outcome.kind = "raise")

\* C15 witness: the one request was answered 500 and the call failed
C15_Witness ==
    /\ Done
    /\ call.reply.kind = "response"
    /\ call.reply.status = 500
    /\ Len(sent) = 1
    /\ FailedWith("NetworkError")

\* C17: with both an explicit webhook and an event the call runs in direct
\* webhook mode: it never fails with SessionExpired, and its request, when
\* there is a message to send, goes to the explicit webhook and not to the
\* event's sessionWebhook, also when the event's session has expired.
C17_WebhookPrecedence ==
    (Done /\ DirectMode /\ call.event # NoEvent) =>
        /\ ~FailedWith("SessionExpired")
        /\ HasMessage =>
              /\ Len(sent) = 1
              /\ sent[1].url = call.webhook
              /\ sent[1].url # call.event.sessionWebhook

\* C17 witness: a call with the webhook W and an event whose session
\* expired two seconds before sent its request to W and returned
C17_Witness ==
    /\ Done
    /\ call.webhook = <<"W">>
    /\ call.event # NoEvent
    /\ call.event.sessionWebhookExpiredTime = 0
    /\ call.now = 2999
    /\ Len(sent) = 1
    /\ sent[1].url = <<"W">>
    /\ outcome.kind = "return"

\* the call has an address: an explicit webhook, or an event whose session
\* has not expired
Addressed ==
    \/ DirectMode
    \/ SessionMode /\ NowSeconds(call.now) <= ExpirySeconds(call.event)

-----------------------------------------------------------------------------
(* Claims about Bot.send. *)

\* Bot.send has called _call_api
SendCalled == sending # NoSend /\ call # NoCall

\* Bot.send has ended: with the end of its call, or without a call
SendDone ==
    /\ sending # NoSend
    /\ outcome.kind # "pending"
    /\ call # NoCall \/ outcome.kind = "raise"

\* the message Bot.send was given, as a sequence of segments
GivenSegments ==
    IF sending.message.cls = "str"
    THEN <<[type |-> "text", text |-> sending.message.text]>>
    ELSE sending.message.segs

\* C19: Bot.send passes the triggering event to _call_api; the message it
\* passes is the given one for a private event and, for every other event,
\* the text "@<senderId> " followed by the given segments in their order
\* followed by one mention of the event's senderId; keyword arguments
\* replace neither: naming event or message among them fails with a
\* TypeError and no call; other keyword arguments pass through, and without
\* a webhook the request goes to the event's sessionWebhook.
C19_SendBuildsCall ==
    /\ SendCalled =>
          /\ ~BindingFails(sending.kwargs)
          /\ call.event = sending.event
          /\ sending.event.conversationType = "1" =>
                call.message = GivenSegments
          /\ sending.event.conversationType # "1" =>
                call.message =
                    <<[type |-> "text",
                       text |-> <<"@">> \o sending.event.senderId \o <<" ">>]>>
                        \o GivenSegments
                        \o <<[type |-> "at", text |-> sending.event.senderId]>>
          /\ call.webhook = IF "webhook" \in sending.kwargs.keys
                            THEN sending.kwargs.webhook ELSE None
          /\ call.secret = IF "secret" \in sending.kwargs.keys
                           THEN sending.kwargs.secret ELSE None
    /\ (SendDone /\ BindingFails(sending.kwargs)) =>
          /\ call = NoCall
          /\ sent = <<>>
          /\ FailedWith("TypeError")
    /\ (SendDone /\ Len(sent) = 1) =>
          /\ sent[1].message = call.message
          /\ "webhook" \notin sending.kwargs.keys =>
                sent[1].url = sending.event.sessionWebhook

\* C19 witness: the reply to a group event with a Message of three segments
\* was sent to the event's sessionWebhook as five segments, the last a
\* mention of the sender
C19_Witness ==
    /\ SendCalled
    /\ outcome.kind = "return"
    /\ sending.event.conversationType = "2"
    /\ sending.message.cls = "Message"
    /\ Len(sending.message.segs) = 3
    /\ Len(sent) = 1
    /\ sent[1].url = <<"S">>
    /\ Len(sent[1].message) = 5
    /\ sent[1].message[1].text = <<"@", "u", "1", " ">>
    /\ sent[1].message[5] = [type |-> "at", text |-> <<"u", "1">>]

====
